---- MODULE Spec2Model ----
(***************************************************************************)
(* Model of topology/core/potential.py: the Potential value object, its    *)
(* validators and the consistency check between expression, parameters     *)
(* and independent variables.                                              *)
(*                                                                         *)
(* Python values are tagged records: a str 'a' is [t |-> "str", n |-> "a"] *)
(* and the sympy Symbol a is [t |-> "Symbol", n |-> "a"], so a str never   *)
(* equals a Symbol, as in Python.  A dict is a function from keys to       *)
(* values.  A string expression is the sequence of its signed monomials;   *)
(* sympify collects like terms, so 'a*x+b-b' parses to a*x.                *)
(***************************************************************************)
EXTENDS Integers, Sequences, FiniteSets, TLC

\* Largest magnitude of a parameter value used in a call.
MaxVal == 2

\* Program variables that may hold a Potential.
Vars == {"p", "q"}

---------------------------------------------------------------------------
\* Python values

Str(n) == [t |-> "str", n |-> n]
Symbol(n) == [t |-> "Symbol", n |-> n]
IntKey == [t |-> "int", n |-> "1"]
None == [t |-> "NoneType"]
Omitted == [t |-> "omitted"]
IntObj == [t |-> "int"]

\* v * u.dimensionless, and the bare float v
Quantity(v) == [t |-> "unyt_quantity", v |-> v]
Float(v) == [t |-> "float", v |-> v]

NoExc == [type |-> "None", msg |-> "", syms |-> {}]
Raise(type, msg, syms) == [type |-> type, msg |-> msg, syms |-> syms]

Term(c, m) == [c |-> c, m |-> m]
StrExpr(terms) == [t |-> "str", terms |-> terms]

\* A setter that replaces the mapping instead of merging into it
update_replaces(d, e) == e

\* dict.update
update(d, e) ==
    [k \in (DOMAIN d) \cup (DOMAIN e) |-> IF k \in DOMAIN e THEN e[k] ELSE d[k]]

\* set(d) / set(d.keys())
keys(d) == DOMAIN d

---------------------------------------------------------------------------
\* sympy

\* sympy.symbols(set of names): the set of the Symbols of these names
symbols(names) == {Symbol(k.n) : k \in names}

RECURSIVE coeff(_, _)
coeff(terms, m) ==
    IF terms = <<>> THEN 0
    ELSE (IF Head(terms).m = m THEN Head(terms).c ELSE 0) + coeff(Tail(terms), m)

\* sympy.sympify(str): like terms are collected, cancelled terms vanish
sympify(s) ==
    LET monos == {s.terms[i].m : i \in DOMAIN s.terms}
        nz == {m \in monos : coeff(s.terms, m) # 0}
    IN [t |-> "Expr", terms |-> [m \in nz |-> coeff(s.terms, m)]]

\* Expr.free_symbols
free_symbols(e) == {Symbol(n) : n \in UNION (DOMAIN e.terms)}

---------------------------------------------------------------------------
\* Validators: each returns [exc, val]

Result(exc, val) == [exc |-> exc, val |-> val]

\* The arguments used here hold at most one offending item, so the item the
\* loop meets first is the offending one.
_validate_parameters(parameters) ==
    IF parameters.t # "dict"
    THEN Result(Raise("ValueError", "Please enter dictionary for parameters", {}), None)
    ELSE LET d == parameters.items
             bad == {k \in DOMAIN d : d[k].t # "unyt_quantity" \/ k.t # "str"}
         IN IF bad = {} THEN Result(NoExc, d)
            ELSE LET k == CHOOSE k \in bad : TRUE
                 IN IF d[k].t # "unyt_quantity"
                    THEN Result(Raise("ValueError", "Parameter value lacks a unyt", {}), None)
                    ELSE Result(Raise("ValueError", "Parameter key is not a str", {k}), None)

PySet(elems) == [t |-> "set", elems |-> elems]
PyList(elems) == [t |-> "list", elems |-> elems]

_validate_independent_variables(indep_vars) ==
    IF indep_vars.t = "str" THEN Result(NoExc, PySet({Symbol(indep_vars.n)}))
    ELSE IF indep_vars.t = "Symbol" THEN Result(NoExc, PySet({indep_vars}))
    ELSE IF indep_vars.t \in {"list", "set"}
    THEN IF \A val \in indep_vars.elems : val.t = "Symbol"
         THEN Result(NoExc, indep_vars)
         ELSE IF \A val \in indep_vars.elems : val.t = "str"
         THEN Result(NoExc, PySet({Symbol(val.n) : val \in indep_vars.elems}))
         ELSE Result(Raise("ValueError", "list or set of mixed variables", {}), None)
    ELSE Result(Raise("ValueError", "Please enter a string, sympy expression, or list or set", {}), None)

_validate_expression(expression) ==
    IF expression.t \in {"NoneType", "Expr"} THEN Result(NoExc, expression)
    ELSE IF expression.t = "str" THEN Result(NoExc, sympify(expression))
    ELSE Result(Raise("ValueError", "Please enter a string, sympy expression, or None", {}), None)

---------------------------------------------------------------------------
\* The consistency check: [exc, warnings] for the three stored fields

Warning(msg, syms) == [msg |-> msg, syms |-> syms]
Checked(exc, warnings) == [exc |-> exc, warnings |-> warnings]

SymDiff(A, B) == (A \ B) \cup (B \ A)

_validate_expression_parameters(parameters, independent_variables, expression) ==
    LET parameter_symbols == symbols(keys(parameters))
        used_symbols == parameter_symbols \cup independent_variables.elems
    IN IF expression.t = "NoneType"
       THEN Checked(Raise("AttributeError", "NoneType has no attribute free_symbols", {}), {})
       ELSE
       LET F == free_symbols(expression)
           unused_symbols == F \ used_symbols
           w1 == IF unused_symbols # {}
                 THEN {Warning("unused symbols", unused_symbols)} ELSE {}
       IN IF used_symbols # F /\ parameter_symbols # F
          THEN IF independent_variables.t = "list"
               THEN Checked(Raise("TypeError", "unsupported operand set - list", {}), w1)
               ELSE LET missing_syms == (F \ parameter_symbols) \ independent_variables.elems
                    IN IF missing_syms # {}
                       THEN Checked(Raise("ValueError", "Missing necessary parameters", missing_syms), w1)
                       ELSE Checked(NoExc, w1 \cup
                              {Warning("extraneous symbols", SymDiff(parameter_symbols, F))})
          ELSE Checked(NoExc, w1)

---------------------------------------------------------------------------
\* Arguments of the calls

Dict(items) == [t |-> "dict", items |-> items]

\* 'a*x+b', 'c*x' and 'a*x+b-b'
S_axb == StrExpr(<<Term(1, {"a", "x"}), Term(1, {"b"})>>)
S_cx == StrExpr(<<Term(1, {"c", "x"})>>)
S_axbb == StrExpr(<<Term(1, {"a", "x"}), Term(1, {"b"}), Term(-1, {"b"})>>)

\* Expressions: two strings, the parsed sympy expression c*x, and an int
ExprArgs == {S_axb, S_axbb, sympify(S_cx), IntObj}

\* {'c': v} for the values v, and {'a': 2.0, 'c': 2.0}
ValidDicts ==
    {Dict([k \in {Str("c")} |-> Quantity(v)]) : v \in 2..MaxVal}
    \cup {Dict([k \in {Str("a"), Str("c")} |-> Quantity(2)])}

\* Parameters: valid dicts, a value without unit, a key that is no str, no dict
ParamArgs ==
    ValidDicts \cup {Dict([k \in {Str("c")} |-> Float(2)]),
                     Dict([k \in {IntKey} |-> Quantity(2)]),
                     IntObj}

\* Independent variables: 'x', Symbol y, [Symbol x], {'x', Symbol y}, an int
IndepArgs ==
    {Str("x"), Symbol("y"), PyList({Symbol("x")}), PySet({Str("x"), Symbol("y")}), IntObj}

---------------------------------------------------------------------------
\* State

VARIABLES
    alive,                    \* the variables bound to a constructed Potential
    _parameters,              \* self._parameters: the dict object it refers to
    _independent_variables,   \* self._independent_variables
    _expression,              \* self._expression
    heap,                     \* the dict objects: __init__'s default and one per caller
    last                      \* the last call: its arguments, exception and warnings

vars == <<alive, _parameters, _independent_variables, _expression, heap, last>>

Refs == {"default"} \cup Vars

\* reached: the step at which the call ended ("validation" of an argument, the
\* "overlap" test, the "guard" of set_expression, the consistency "check", or
\* "done" for a call that has no check)
Call(op, self, expression, parameters, independent_variables, reached, exc, warnings) ==
    [op |-> op, self |-> self, expression |-> expression, parameters |-> parameters,
     independent_variables |-> independent_variables, reached |-> reached,
     exc |-> exc, warnings |-> warnings]

\* The parameters of self as the program reads them
parameters_getter(self) == heap[_parameters[self]]

Init ==
    /\ alive = {}
    /\ _parameters = [v \in Vars |-> "default"]
    /\ _independent_variables = [v \in Vars |-> None]
    /\ _expression = [v \in Vars |-> None]
    /\ heap = [r \in Refs |-> IF r = "default"
                              THEN [k \in {Str("a"), Str("b")} |-> Quantity(1)]
                              ELSE <<>>]
    /\ last = Call("none", "none", None, None, None, "done", NoExc, {})

---------------------------------------------------------------------------
\* Operations

\* self = Potential(expression=..., parameters=..., independent_variables=...)
\* Each variable is bound once, to the object a call that succeeds constructs.
\* An omitted parameters argument is the one dict object made when the def ran.
Potential_init(self, expression, parameters, independent_variables) ==
    LET ref == IF parameters.t = "omitted" THEN "default" ELSE self
        vp == _validate_parameters(
                  IF parameters.t = "omitted" THEN Dict(heap["default"]) ELSE parameters)
        vi == _validate_independent_variables(
                  IF independent_variables.t = "omitted" THEN PySet({Str("x")})
                  ELSE independent_variables)
        ve == _validate_expression(
                  IF expression.t = "omitted" THEN S_axb ELSE expression)
        chk == _validate_expression_parameters(vp.val, vi.val, ve.val)
        exc == IF vp.exc # NoExc THEN vp.exc
               ELSE IF vi.exc # NoExc THEN vi.exc
               ELSE IF ve.exc # NoExc THEN ve.exc
               ELSE chk.exc
        warnings == IF vp.exc = NoExc /\ vi.exc = NoExc /\ ve.exc = NoExc
                    THEN chk.warnings ELSE {}
    IN /\ self \in Vars \ alive
       /\ last' = Call("__init__", self, expression, parameters, independent_variables,
                       IF vp.exc = NoExc /\ vi.exc = NoExc /\ ve.exc = NoExc
                       THEN "check" ELSE "validation",
                       exc, warnings)
       /\ IF exc = NoExc
          THEN /\ alive' = alive \cup {self}
               /\ _parameters' = [_parameters EXCEPT ![self] = ref]
               /\ heap' = IF ref = "default" THEN heap ELSE [heap EXCEPT ![ref] = vp.val]
               /\ _independent_variables' = [_independent_variables EXCEPT ![self] = vi.val]
               /\ _expression' = [_expression EXCEPT ![self] = ve.val]
          ELSE UNCHANGED <<alive, _parameters, _independent_variables, _expression, heap>>

\* self.parameters = newparams
parameters_setter(self, newparams) ==
    LET vp == _validate_parameters(newparams)
        merged == update(parameters_getter(self), vp.val)
        chk == _validate_expression_parameters(
                   merged, _independent_variables[self], _expression[self])
    IN /\ self \in alive
       /\ UNCHANGED <<alive, _parameters, _independent_variables, _expression>>
       /\ IF vp.exc # NoExc
          THEN /\ heap' = heap
               /\ last' = Call("parameters", self, None, newparams, None,
                               "validation", vp.exc, {})
          ELSE /\ heap' = [heap EXCEPT ![_parameters[self]] = merged]
               /\ last' = Call("parameters", self, None, newparams, None,
                               "check", chk.exc, chk.warnings)

\* self.independent_variables = indep_vars
independent_variables_setter(self, indep_vars) ==
    LET vi == _validate_independent_variables(indep_vars)
    IN /\ self \in alive
       /\ UNCHANGED <<alive, _parameters, _expression, heap>>
       /\ last' = Call("independent_variables", self, None, None, indep_vars,
                       IF vi.exc # NoExc THEN "validation" ELSE "done", vi.exc, {})
       /\ _independent_variables' =
              IF vi.exc # NoExc THEN _independent_variables
              ELSE [_independent_variables EXCEPT ![self] = vi.val]

\* An expression setter that checks before it assigns, keeping the old
\* expression when the check fails
expression_setter_transactional(self, expression) ==
    LET ve == _validate_expression(expression)
        chk == _validate_expression_parameters(
                   parameters_getter(self), _independent_variables[self], ve.val)
    IN /\ self \in alive
       /\ UNCHANGED <<alive, _parameters, _independent_variables, heap>>
       /\ IF ve.exc # NoExc
          THEN /\ _expression' = _expression
               /\ last' = Call("expression", self, expression, None, None,
                               "validation", ve.exc, {})
          ELSE /\ _expression' = IF chk.exc # NoExc THEN _expression
                                 ELSE [_expression EXCEPT ![self] = ve.val]
               /\ last' = Call("expression", self, expression, None, None,
                               "check", chk.exc, chk.warnings)

\* self.expression = expression
expression_setter(self, expression) ==
    LET ve == _validate_expression(expression)
        chk == _validate_expression_parameters(
                   parameters_getter(self), _independent_variables[self], ve.val)
    IN /\ self \in alive
       /\ UNCHANGED <<alive, _parameters, _independent_variables, heap>>
       /\ IF ve.exc # NoExc
          THEN /\ _expression' = _expression
               /\ last' = Call("expression", self, expression, None, None,
                               "validation", ve.exc, {})
          ELSE /\ _expression' = [_expression EXCEPT ![self] = ve.val]
               /\ last' = Call("expression", self, expression, None, None,
                               "check", chk.exc, chk.warnings)

\* The overlap test with its condition inverted
no_overlap_inverted(old, new) == keys(old) \cap keys(new) # {}

\* not set(self._parameters).intersection(set(parameters))
no_overlap(old, new) == keys(old) \cap keys(new) = {}

\* A guard that compares the names of the keys with the names of the symbols
isdisjoint_by_name(A, B) == {k.n : k \in A} \cap {k.n : k \in B} = {}

\* set.isdisjoint: no element of A equals an element of B
isdisjoint(A, B) == A \cap B = {}

\* self.set_expression(expression, parameters, independent_variables)
\* x1..x4 are the exceptions of the successive steps; the first one raised
\* ends the call (stage) and the assignments made before it stay.
set_expression(self, expression, parameters, independent_variables) ==
    LET ve == _validate_expression(expression)
        \* lines 104-105
        e1 == IF expression.t # "NoneType" /\ ve.exc = NoExc THEN ve.val
              ELSE _expression[self]
        x1 == IF expression.t # "NoneType" THEN ve.exc ELSE NoExc
        \* lines 107-117
        old == parameters_getter(self)
        vp == _validate_parameters(parameters)
        x2 == IF parameters.t = "NoneType" THEN NoExc
              ELSE IF vp.exc # NoExc THEN vp.exc
              ELSE IF no_overlap(old, vp.val) /\ expression.t = "NoneType"
              THEN Raise("ValueError", "parameters argument includes no variables found in expression",
                         keys(old))
              ELSE NoExc
        d2 == IF parameters.t # "NoneType" /\ x2 = NoExc THEN update(old, vp.val) ELSE old
        resolved == IF parameters.t = "NoneType" THEN old ELSE vp.val
        \* lines 119-120
        vi == _validate_independent_variables(independent_variables)
        x3 == IF independent_variables.t # "NoneType" THEN vi.exc ELSE NoExc
        i3 == IF independent_variables.t # "NoneType" /\ vi.exc = NoExc THEN vi.val
              ELSE _independent_variables[self]
        \* lines 122-123
        x4 == IF e1.t = "NoneType"
              THEN Raise("AttributeError", "NoneType has no attribute free_symbols", {})
              ELSE IF ~isdisjoint(keys(resolved), free_symbols(e1))
              THEN Raise("ValueError", "Mismatch between parameters and expression symbols", {})
              ELSE NoExc
        \* line 125
        chk == _validate_expression_parameters(d2, i3, e1)
        stage == IF x1 # NoExc THEN 1 ELSE IF x2 # NoExc THEN 2 ELSE IF x3 # NoExc THEN 3
                 ELSE IF x4 # NoExc THEN 4 ELSE 5
        exc == CASE stage = 1 -> x1 [] stage = 2 -> x2 [] stage = 3 -> x3
                 [] stage = 4 -> x4 [] OTHER -> chk.exc
    IN /\ self \in alive
       /\ UNCHANGED <<alive, _parameters>>
       /\ _expression' = IF stage > 1 THEN [_expression EXCEPT ![self] = e1] ELSE _expression
       /\ heap' = IF stage > 2 THEN [heap EXCEPT ![_parameters[self]] = d2] ELSE heap
       /\ _independent_variables' =
              IF stage > 3 THEN [_independent_variables EXCEPT ![self] = i3]
              ELSE _independent_variables
       /\ last' = Call("set_expression", self, expression, parameters, independent_variables,
                       CASE stage = 1 -> "validation"
                         [] stage = 2 -> IF vp.exc # NoExc THEN "validation" ELSE "overlap"
                         [] stage = 3 -> "validation"
                         [] stage = 4 -> "guard"
                         [] OTHER -> "check",
                       exc, IF stage = 5 THEN chk.warnings ELSE {})

\* The calls of the two operations that take several arguments.  A call stops
\* at the first argument that fails validation and never reads the later ones,
\* so an invalid argument comes with the later ones left out (None / omitted).
FloatDict == Dict([k \in {Str("c")} |-> Float(2)])
MixedSet == PySet({Str("x"), Symbol("y")})

\* __init__ validates parameters, independent_variables, expression in this order
InitCalls ==
    ({Omitted, sympify(S_cx), None}
        \X {Omitted, Dict([k \in {Str("c")} |-> Quantity(2)])}
        \X {Omitted, Symbol("y"), PyList({Symbol("x")})})
    \cup {<<Omitted, FloatDict, Omitted>>, <<Omitted, Omitted, IntObj>>,
          <<IntObj, Omitted, Omitted>>}

\* set_expression validates expression, parameters, independent_variables in this order
SetExpressionCalls ==
    ({None, S_axb, S_axbb, sympify(S_cx)}
        \X (ValidDicts \cup {None})
        \X {None, Symbol("y"), PyList({Symbol("x")})})
    \cup {<<IntObj, None, None>>, <<None, FloatDict, None>>,
          <<sympify(S_cx), FloatDict, None>>, <<None, None, MixedSet>>}

Next ==
    \/ \E c \in InitCalls : Potential_init("p", c[1], c[2], c[3])
    \/ \E d \in ParamArgs : parameters_setter("p", d)
    \/ \E i \in IndepArgs : independent_variables_setter("p", i)
    \/ \E e \in ExprArgs \cup {None} : expression_setter("p", e)
    \/ \E c \in SetExpressionCalls : set_expression("p", c[1], c[2], c[3])

Spec == Init /\ [][Next]_vars

\* Two variables, to observe one object through the other
NextTwo ==
    \/ \E self \in Vars, d \in {Omitted} \cup ValidDicts, i \in {Omitted, Symbol("y")} :
          Potential_init(self, Omitted, d, i)
    \/ \E self \in Vars, d \in ValidDicts : parameters_setter(self, d)
    \/ \E self \in Vars : independent_variables_setter(self, Symbol("y"))
    \/ \E self \in Vars : expression_setter(self, S_axbb)
    \/ \E self \in Vars, d \in ValidDicts \cup {None} :
          set_expression(self, sympify(S_cx), d, None)

SpecTwo == Init /\ [][NextTwo]_vars

---------------------------------------------------------------------------
\* Vocabulary of the properties

MissingMsg == "Missing necessary parameters"
OverlapMsg == "parameters argument includes no variables found in expression"
MismatchMsg == "Mismatch between parameters and expression symbols"

\* An argument that was passed: neither None nor left out
Given(x) == x.t \notin {"NoneType", "omitted"}
Names(S) == {k.n : k \in S}

\* The three fields the consistency check of the last call read.  A constructor
\* that fails stores nothing, so its fields are those made from its arguments.
LastP ==
    IF last.op # "__init__" THEN parameters_getter(last.self)
    ELSE IF Given(last.parameters) THEN last.parameters.items ELSE heap["default"]
LastI ==
    IF last.op # "__init__" THEN _independent_variables[last.self]
    ELSE IF Given(last.independent_variables)
         THEN _validate_independent_variables(last.independent_variables).val
         ELSE PySet({Symbol("x")})
LastE ==
    IF last.op # "__init__" THEN _expression[last.self]
    ELSE IF last.expression.t = "omitted" THEN sympify(S_axb)
         ELSE _validate_expression(last.expression).val
CheckRan == last.reached = "check" /\ LastE.t = "Expr"
LastF == free_symbols(LastE)
LastPsyms == {Symbol(k.n) : k \in keys(LastP)}
LastMissing == (LastF \ LastPsyms) \ LastI.elems
LastExtra == (LastPsyms \cup LastI.elems) \ LastF

\* Every free symbol of self's expression is a parameter key or an independent variable
Supplied(self) ==
    /\ _expression[self].t = "Expr"
    /\ free_symbols(_expression[self])
           \subseteq {Symbol(k.n) : k \in keys(parameters_getter(self))}
                     \cup _independent_variables[self].elems

---------------------------------------------------------------------------
\* C1: every operation that returns without error leaves every free symbol of
\* the stored expression a parameter key or an independent variable: a
\* constructor that succeeds establishes it, and every other successful call
\* on an object that has it keeps it.
C1_SuppliedAfterEverySuccess ==
    [][\A self \in Vars :
        (/\ last'.self = self
         /\ last'.exc = NoExc
         /\ self \in alive'
         /\ (last'.op = "__init__" \/ Supplied(self)))
        => Supplied(self)']_vars

\* C2: whenever the consistency check runs, it raises the "missing necessary
\* parameters" ValueError exactly when F - P - I is not empty, and the error
\* names exactly F - P - I.
C2_MissingErrorIffMissing ==
    CheckRan =>
        /\ (last.exc.type = "ValueError" /\ last.exc.msg = MissingMsg) <=> LastMissing # {}
        /\ LastMissing # {} => last.exc.syms = LastMissing

\* C3: whenever the consistency check runs with a declared symbol absent from
\* the expression and no expression symbol without supplier, the call succeeds
\* and warns, and the warning names exactly (P union I) - F.  (Stated for
\* independent variables held as a set.)
C3_WarningNamesExtra ==
    (CheckRan /\ LastI.t = "set" /\ LastExtra # {} /\ LastMissing = {}) =>
        /\ last.exc = NoExc
        /\ last.warnings # {}
        /\ \A w \in last.warnings : w.syms = LastExtra

\* C4: Potential() with no arguments succeeds with no warning and no error,
\* whatever was done before to other objects.
C4_DefaultConstructionSilent ==
    (/\ last.op = "__init__"
     /\ last.expression.t = "omitted"
     /\ last.parameters.t = "omitted"
     /\ last.independent_variables.t = "omitted")
    => (last.exc = NoExc /\ last.warnings = {})

\* C5: a parameters setter that succeeds merges: the keys are the old keys and
\* the new ones, a new key has its new value, an old key not in the new dict
\* keeps its value, and expression and independent variables are unchanged.
C5_ParametersSetterMerges ==
    [][\A self \in Vars :
        (last'.self = self /\ last'.op = "parameters" /\ last'.exc = NoExc) =>
        LET old == parameters_getter(self)
            new == last'.parameters.items
            now == parameters_getter(self)'
        IN /\ DOMAIN now = (DOMAIN old) \cup (DOMAIN new)
           /\ \A k \in DOMAIN new : now[k] = new[k]
           /\ \A k \in (DOMAIN old) \ (DOMAIN new) : now[k] = old[k]
           /\ _expression' = _expression
           /\ _independent_variables' = _independent_variables]_vars

C5_Witness ==
    /\ last.op = "parameters" /\ last.exc = NoExc
    /\ last.parameters = Dict([k \in {Str("a"), Str("c")} |-> Quantity(2)])
    /\ parameters_getter("p") =
           [k \in {Str("a"), Str("b"), Str("c")} |->
               IF k = Str("b") THEN Quantity(1) ELSE Quantity(2)]

\* C6: set_expression with expression=None and valid parameters that share no
\* key with the stored ones fails with the overlap ValueError and changes
\* nothing, also when independent variables were passed as well.
C6_NoOverlapFailsUnchanged ==
    [][\A self \in Vars :
       (/\ last'.self = self
        /\ last'.op = "set_expression"
        /\ last'.expression.t = "NoneType"
        /\ last'.parameters.t = "dict"
        /\ _validate_parameters(last'.parameters).exc = NoExc
        /\ (DOMAIN last'.parameters.items) \cap (DOMAIN parameters_getter(self)) = {})
       => (/\ last'.exc.type = "ValueError" /\ last'.exc.msg = OverlapMsg
           /\ UNCHANGED <<alive, _parameters, _independent_variables, _expression, heap>>)]_vars

C6_Witness ==
    /\ last.op = "set_expression" /\ last.exc.msg = OverlapMsg
    /\ last.expression.t = "NoneType"
    /\ last.independent_variables = Symbol("y")
    /\ _independent_variables["p"] = PySet({Symbol("x")})
    /\ Str("c") \notin DOMAIN parameters_getter("p")

\* C7: set_expression with a new expression and parameters that share no key
\* with the stored ones raises no error whenever every free symbol of the new
\* expression is a key of the merged parameters or an independent variable in
\* force after the call's updates.
C7_DisjointWithExpressionSucceeds ==
    [][\A self \in Vars :
       (/\ last'.self = self
        /\ last'.op = "set_expression"
        /\ last'.expression.t \in {"str", "Expr"}
        /\ last'.parameters.t = "dict"
        /\ _validate_parameters(last'.parameters).exc = NoExc
        /\ (DOMAIN last'.parameters.items) \cap (DOMAIN parameters_getter(self)) = {}
        /\ last'.reached \in {"guard", "check"}
        /\ Supplied(self)')
       => last'.exc = NoExc]_vars

\* C8 as claimed: once set_expression has merged the parameters and replaced
\* the independent variables, it fails with the "Mismatch" ValueError whenever
\* a name of the resolved parameters is the name of a free symbol of the
\* stored expression.
C8_GuardFiresOnSharedName ==
    (/\ last.op = "set_expression"
     /\ last.reached \in {"guard", "check"}
     /\ _expression[last.self].t = "Expr"
     /\ Names(IF Given(last.parameters) THEN DOMAIN last.parameters.items
              ELSE DOMAIN parameters_getter(last.self))
            \cap Names(free_symbols(_expression[last.self])) # {})
    => (last.exc.type = "ValueError" /\ last.exc.msg = MismatchMsg)

\* C8 as amended: the guard compares the str keys with the Symbols of the
\* expression, and a str never equals a Symbol; no call of set_expression
\* fails with the "Mismatch" ValueError, and a call that reaches the guard
\* with an expression stored goes on to the consistency check.
C8_GuardNeverFires ==
    /\ last.exc.msg # MismatchMsg
    /\ (last.op = "set_expression" /\ last.reached = "guard")
           => _expression[last.self].t = "NoneType"

C8_Witness ==
    /\ last.op = "set_expression" /\ last.reached = "check" /\ last.exc = NoExc
    /\ Given(last.parameters)
    /\ Str("a") \in DOMAIN last.parameters.items
    /\ Symbol("a") \in free_symbols(_expression[last.self])

\* C9: when the expression setter or set_expression raises the missing-symbols
\* ValueError from the final check, what the call assigned before stays: the
\* new expression, the merged parameters, the replaced independent variables.
C9_NoRollback ==
    [][\A self \in Vars :
       (/\ last'.self = self
        /\ last'.op \in {"expression", "set_expression"}
        /\ last'.exc.type = "ValueError" /\ last'.exc.msg = MissingMsg)
       => LET old == parameters_getter(self)
              now == parameters_getter(self)'
          IN /\ Given(last'.expression) =>
                    _expression'[self] = _validate_expression(last'.expression).val
             /\ Given(last'.parameters) =>
                    /\ DOMAIN now = (DOMAIN old) \cup (DOMAIN last'.parameters.items)
                    /\ \A k \in DOMAIN last'.parameters.items :
                           now[k] = last'.parameters.items[k]
             /\ Given(last'.independent_variables) =>
                    _independent_variables'[self] =
                        _validate_independent_variables(last'.independent_variables).val]_vars

C9_Witness ==
    /\ last.op = "expression" /\ last.exc.msg = MissingMsg
    /\ last.expression = sympify(S_cx)
    /\ _expression["p"] = sympify(S_cx)
    /\ Str("c") \notin DOMAIN parameters_getter("p")

\* C10: a parameters setter or set_expression call on one object leaves the
\* parameters, expression and independent variables of every other object
\* unchanged.  (No object here was handed another object's mapping.)
C10_InstancesIsolated ==
    [][\A self \in Vars :
        (last'.self = self /\ last'.op \in {"parameters", "set_expression"}) =>
        \A other \in alive \ {self} :
            /\ parameters_getter(other)' = parameters_getter(other)
            /\ _expression'[other] = _expression[other]
            /\ _independent_variables'[other] = _independent_variables[other]]_vars

====
